---- MODULE Spec2Model ----
(***************************************************************************)
(* Model of the ZEFIX client: the ZefixApiClient request interceptor (the  *)
(* "request gate": Basic auth header + throttle), the module-level         *)
(* configureClient / getClient singleton, the earlier module-level         *)
(* configureClient / setAuth, the toBase64 helper, the ZefixError          *)
(* redaction, ensureOk and the UID helpers of uid.ts.                      *)
(*                                                                         *)
(* Strings are sequences of code points.  An optional value is a record    *)
(* with a "def" flag.  Time is the reading of Date.now() in milliseconds.  *)
(***************************************************************************)
EXTENDS Integers, Sequences, FiniteSets, TLC

\* ------------------------------------------------------------------ bounds
StartTime == 2      \* Date.now() at the start (far from 0, the initial lastRequestTime)
NumReqs == 2        \* SpecThrottle: requests issued through the one client
Horizon == 4        \* SpecThrottle: milliseconds of clock after StartTime
MaxClients == 2     \* Spec: ZefixApiClient instances constructed
MaxReqs == 2        \* Spec: requests issued
MaxWait == 1        \* Spec, SpecAuth: milliseconds of clock after StartTime
AuthReqs == 2       \* SpecAuth: requests issued through the one client
MaxErrors == 1      \* SpecError: ZefixError objects constructed
MaxStrLen == 3      \* SpecBase64: code units of the string handed to toBase64
ModuleUses == 2     \* SpecModule: interceptors registered on the shared client
ModuleReqs == 2     \* SpecModule: requests issued
StackClients == 2   \* SpecStack: ZefixApiClient instances constructed
StackReqs == 2      \* SpecStack: requests issued
LiveReqs == 2       \* SpecLive: requests issued through the one client

\* ------------------------------------------------------------- strings
Colon == 58
u_user == <<117>>               \* "u"
v_user == <<118>>               \* "v"
p_ascii == <<112>>              \* "p"
p_latin1 == <<228>>             \* "ä"  (U+00E4)
p_euro == <<8364>>              \* "€"  (U+20AC)

Undefined == [def |-> FALSE, val |-> <<>>]
Str(s) == [def |-> TRUE, val |-> s]

\* JavaScript truthiness of an optional string: undefined and "" are falsy
Truthy(s) == s.def /\ s.val # <<>>

\* ------------------------------------------------------------- toBase64
\* UTF-8 bytes of one code point of the Basic Multilingual Plane
Utf8(cp) ==
  IF cp < 128 THEN <<cp>>
  ELSE IF cp < 2048 THEN <<192 + (cp \div 64), 128 + (cp % 64)>>
  ELSE <<224 + (cp \div 4096), 128 + ((cp \div 64) % 64), 128 + (cp % 64)>>

RECURSIVE Utf8Bytes(_)
Utf8Bytes(s) == IF s = <<>> THEN <<>> ELSE Utf8(Head(s)) \o Utf8Bytes(Tail(s))

\* Standard base64 of a byte sequence, as indices into the base64 alphabet
\* (0..63); 64 stands for the padding character '='.
Pad == 64
RECURSIVE Base64(_)
Base64(b) ==
  IF b = <<>> THEN <<>>
  ELSE IF Len(b) = 1 THEN
    <<b[1] \div 4, (b[1] % 4) * 16, Pad, Pad>>
  ELSE IF Len(b) = 2 THEN
    <<b[1] \div 4, (b[1] % 4) * 16 + (b[2] \div 16), (b[2] % 16) * 4, Pad>>
  ELSE
    <<b[1] \div 4, (b[1] % 4) * 16 + (b[2] \div 16),
      (b[2] % 16) * 4 + (b[3] \div 64), b[3] % 64>>
    \o Base64(SubSeq(b, 4, Len(b)))

\* btoa(s): every code unit is taken as one byte; a code unit above 0xFF
\* makes btoa throw InvalidCharacterError.
Btoa(s) ==
  IF \E k \in 1..Len(s) : s[k] > 255
  THEN [ok |-> FALSE, val |-> <<>>]
  ELSE [ok |-> TRUE, val |-> Base64(s)]

\* toBase64: the btoa path when btoa exists, else the Node Buffer path
\* (UTF-8), else it throws.
toBase64(hasBtoa, hasBuffer, s) ==
  IF hasBtoa THEN Btoa(s)
  ELSE IF hasBuffer THEN [ok |-> TRUE, val |-> Base64(Utf8Bytes(s))]
  ELSE [ok |-> FALSE, val |-> <<>>]

\* ------------------------------------------------------------ configuration
DefaultBaseUrl == "https://www.zefix.admin.ch/ZefixPublicREST"
CustomBaseUrl == "https://proxy.example/zefix"

NoUrl == [def |-> FALSE, val |-> ""]
Url(s) == [def |-> TRUE, val |-> s]

\* Auth = { username?: string; password?: string }, itself optional
NoAuth == [def |-> FALSE, username |-> Undefined, password |-> Undefined]
Auth(u, p) == [def |-> TRUE, username |-> u, password |-> p]

\* throttle?: { minIntervalMs?: number }
NoThrottle == [def |-> FALSE, minIntervalMs |-> 0]
Throttle(ms) == [def |-> TRUE, minIntervalMs |-> ms]

AuthUP == Auth(Str(u_user), Str(p_ascii))
AuthLatin1 == Auth(Str(v_user), Str(p_latin1))
AuthEuro == Auth(Str(u_user), Str(p_euro))
AuthNoPassword == Auth(Str(u_user), Undefined)
AuthEmptyUser == Auth(Str(<<>>), Str(p_ascii))

ClientConfig(b, a, t, f) ==
  [baseUrl |-> b, auth |-> a, throttle |-> t, customFetch |-> f]

\* the ClientConfig objects handed to the constructor
Configs ==
  { ClientConfig(NoUrl, NoAuth, NoThrottle, FALSE),
    ClientConfig(NoUrl, AuthUP, Throttle(1), FALSE),
    ClientConfig(Url(CustomBaseUrl), AuthNoPassword, NoThrottle, TRUE),
    ClientConfig(NoUrl, AuthEuro, Throttle(0), FALSE),
    ClientConfig(NoUrl, AuthEmptyUser, Throttle(-1), FALSE) }

\* the auth values handed to setAuth
Auths == {NoAuth, AuthLatin1}

\* ------------------------------------------------------------------ headers
\* The Authorization header of a request: absent, or a scheme and a value.
NoHeader == [scheme |-> "none", value |-> <<>>]
CallerHeader == [scheme |-> "Bearer", value |-> <<7>>]
Basic(credentials) == [scheme |-> "Basic", value |-> credentials]

\* --------------------------------------------------------------------- state
VARIABLES
  now,           \* the reading of Date.now()
  window,        \* typeof window !== 'undefined'
  document,      \* typeof document !== 'undefined'
  btoa,          \* typeof btoa !== 'undefined'
  nodeBuffer,    \* require('node:buffer') yields a Buffer
  clientConfig,  \* the configuration of the shared generated client
  interceptors,  \* client.interceptors.request: instance ids, in registration order
  clients,       \* the ZefixApiClient instances: config, lastRequestTime
  globalClient,  \* index.ts globalClient: an instance id, 0 when undefined
  lastCall,      \* the latest constructor call and whether it threw
  reqs,          \* the requests: position in the interceptor chain, headers
  errors,        \* the ZefixError objects constructed
  currentAuth,   \* the earlier index.ts: let currentAuth
  throttleConfig,   \* the earlier index.ts: let throttleConfig
  lastRequestTime,  \* the earlier index.ts: let lastRequestTime
  call           \* the latest call of an exported function: arguments, outcome

vars == <<now, window, document, btoa, nodeBuffer, clientConfig, interceptors,
          clients, globalClient, lastCall, reqs, errors, currentAuth,
          throttleConfig, lastRequestTime, call>>

envVars == <<window, document, btoa, nodeBuffer>>
sdkVars == <<clientConfig, interceptors, clients, globalClient, lastCall>>
moduleVars == <<currentAuth, throttleConfig, lastRequestTime>>

IdleReq ==
  [pc |-> "idle", via |-> 0, cur |-> 0, gate |-> 0, callerHdr |-> NoHeader,
   hdr |-> NoHeader, newHdr |-> NoHeader, cred |-> NoAuth, due |-> 0,
   delay |-> 0, seen |-> 0, aborted |-> FALSE, abortedIn |-> 0, trail |-> <<>>]

NoCall == [op |-> "none", browser |-> FALSE, threw |-> FALSE]

\* no exported function has been called yet
Uncalled == [fn |-> "none"]

InitSdk ==
  /\ clientConfig = [baseUrl |-> DefaultBaseUrl, fetch |-> "default"]
  /\ interceptors = <<>>
  /\ clients = <<>>
  /\ globalClient = 0
  /\ lastCall = NoCall
  /\ errors = <<>>
  /\ currentAuth = NoAuth
  /\ throttleConfig = NoThrottle
  /\ lastRequestTime = 0
  /\ call = Uncalled

\* A server-side host: no browser globals
InitServer ==
  /\ now = StartTime
  /\ window = FALSE
  /\ document = FALSE
  /\ InitSdk

\* --------------------------------------------------------------- constructor
\* client.ts:32  the browser environment guard
IsBrowser(w, d) == w /\ d

\* client.ts:40-47  clientConfig handed to client.setConfig, which merges it
\* into the shared client's configuration
SetConfig(old, config) ==
  [baseUrl |-> IF config.baseUrl.def THEN config.baseUrl.val ELSE DefaultBaseUrl,
   fetch |-> IF config.customFetch THEN "custom" ELSE old.fetch]

NewInstance(config, op) ==
  [config |-> config, lastRequestTime |-> 0, released |-> 0, origin |-> op]

\* the interceptor takes the place of those registered before
UseInPlace(fns, id) == <<id>>

\* client.ts:49  client.interceptors.request.use(...)
Use(fns, id) == Append(fns, id)

\* a guard placed after the configuration instead of before it
ConstructThenGuard(config, op, setGlobal) ==
  /\ clientConfig' = SetConfig(clientConfig, config)
  /\ interceptors' = Use(interceptors, Len(clients) + 1)
  /\ clients' = Append(clients, NewInstance(config, op))
  /\ globalClient' = IF setGlobal /\ ~IsBrowser(window, document)
                     THEN Len(clients) + 1 ELSE globalClient
  /\ lastCall' = [op |-> op, browser |-> window /\ document,
                  threw |-> IsBrowser(window, document)]

\* new ZefixApiClient(config); setGlobal tells whether the caller assigns the
\* new instance to globalClient (index.ts:30, 35)
Construct(config, op, setGlobal) ==
  IF IsBrowser(window, document)
  THEN /\ lastCall' = [op |-> op, browser |-> window /\ document, threw |-> TRUE]
       /\ UNCHANGED <<clientConfig, interceptors, clients, globalClient>>
  ELSE /\ clientConfig' = SetConfig(clientConfig, config)
       /\ clients' = Append(clients, NewInstance(config, op))
       /\ interceptors' = Use(interceptors, Len(clients) + 1)
       /\ globalClient' = IF setGlobal THEN Len(clients) + 1 ELSE globalClient
       /\ lastCall' = [op |-> op, browser |-> window /\ document, threw |-> FALSE]

NewClient(config) ==
  /\ Construct(config, "new", FALSE)
  /\ UNCHANGED <<now, envVars, reqs, errors, moduleVars, call>>

\* index.ts:29-32
ConfigureClient(config) ==
  /\ Construct(config, "configureClient", TRUE)
  /\ UNCHANGED <<now, envVars, reqs, errors, moduleVars, call>>

\* getClient constructing a default instance on every call
GetClientAnew ==
  /\ Construct(ClientConfig(NoUrl, NoAuth, NoThrottle, FALSE), "getClient", TRUE)
  /\ UNCHANGED <<now, envVars, reqs, errors, moduleVars, call>>

\* index.ts:34-37  globalClient ||= new ZefixApiClient()
GetClient ==
  /\ IF globalClient # 0
     THEN UNCHANGED sdkVars
     ELSE Construct(ClientConfig(NoUrl, NoAuth, NoThrottle, FALSE), "getClient", TRUE)
  /\ UNCHANGED <<now, envVars, reqs, errors, moduleVars, call>>

\* setAuth taking over the username alone when credentials are already set
SetAuthUsernameOnly(i, auth) ==
  /\ i \in 1..Len(clients)
  /\ clients' = [clients EXCEPT ![i].config.auth =
                    IF auth.def /\ @.def
                    THEN [@ EXCEPT !.username = auth.username]
                    ELSE auth]
  /\ UNCHANGED <<now, envVars, clientConfig, interceptors, globalClient, lastCall,
                 reqs, errors, moduleVars, call>>

\* setAuth building the instance's configuration anew from the credentials
SetAuthReconfigures(i, auth) ==
  /\ i \in 1..Len(clients)
  /\ clients' = [clients EXCEPT ![i].config =
                    ClientConfig(NoUrl, auth, NoThrottle, FALSE)]
  /\ UNCHANGED <<now, envVars, clientConfig, interceptors, globalClient, lastCall,
                 reqs, errors, moduleVars, call>>

\* client.ts:71-73
SetAuth(i, auth) ==
  /\ i \in 1..Len(clients)
  /\ clients' = [clients EXCEPT ![i].config.auth = auth]
  /\ UNCHANGED <<now, envVars, clientConfig, interceptors, globalClient, lastCall,
                 reqs, errors, moduleVars, call>>

\* ------------------------------------------------------ request interceptor
\* a test of the username alone
HasCredentialsUsernameOnly(auth) == auth.def /\ Truthy(auth.username)

\* client.ts:52  this.config.auth?.username && this.config.auth?.password
HasCredentials(auth) == auth.def /\ Truthy(auth.username) /\ Truthy(auth.password)

\* client.ts:53  `${username}:${password}`
Credentials(auth) == auth.username.val \o <<Colon>> \o auth.password.val

\* a header set only when the request has none
DecorateIfAbsent(auth, hdr, encoded) ==
  IF auth.def /\ Truthy(auth.username) /\ Truthy(auth.password)
       /\ hdr.scheme = "none"
  THEN [scheme |-> "Basic", value |-> encoded]
  ELSE hdr

\* client.ts:50-55  headers = new Headers(req.headers), then headers.set
Decorate(auth, hdr, encoded) == IF HasCredentials(auth) THEN Basic(encoded) ELSE hdr

\* client.ts:57  minIntervalMs && minIntervalMs > 0
ThrottleOn(t) == t.def /\ t.minIntervalMs # 0 /\ t.minIntervalMs > 0

\* the comparison turned around
MustWaitInverted(timeSinceLastRequest, minInterval) ==
  timeSinceLastRequest > minInterval

\* client.ts:61  timeSinceLastRequest < minInterval
MustWait(timeSinceLastRequest, minInterval) == timeSinceLastRequest < minInterval

\* the whole interval, whatever has elapsed
WaitTimeWhole(timeSinceLastRequest, minInterval) == minInterval

\* client.ts:62  the setTimeout delay
WaitTime(timeSinceLastRequest, minInterval) == minInterval - timeSinceLastRequest

\* the time elapsed since the reading taken on entry, not the clock
StampElapsed(read, clock) == clock - read

\* the reading taken on entry, before the wait
StampOnEntry(read, clock) == read

\* client.ts:64  this.lastRequestTime = Date.now(), read after the wait
\* (read = the reading of line 58, clock = the reading now)
Stamp(read, clock) == clock

\* headers that are the request's own Headers object
ReqHeadersAliased(reqHeaders, headers) == headers

\* client.ts:50  headers = new Headers(req.headers) is a copy: after
\* headers.set the headers of req are what they were
ReqHeaders(reqHeaders, headers) == reqHeaders

\* headers computed again after the wait
DispatchHeadersRecomputed(captured, recomputed) == recomputed

\* client.ts:67  the headers handed to new Request are those computed before
\* the wait (lines 50-55), whatever the credentials are by then
DispatchHeaders(captured, recomputed) == captured

\* client.ts:67  return new Request(req, {headers}): request r leaves the gate
\* of instance i with the given headers, entered at the given reading
Leave(q, i, headers, entered, auth, wait, seen) ==
  [q EXCEPT !.pc = "chain",
            !.gate = q.gate + 1,
            !.hdr = headers,
            !.trail = Append(q.trail,
               [inst |-> i, at |-> now, entered |-> entered, seen |-> seen,
                rank |-> clients[i].released + 1, inHdr |-> q.hdr,
                outHdr |-> headers, cred |-> auth, delay |-> wait,
                reqHdr |-> ReqHeaders(q.hdr, headers)])]

\* A request is issued with an SDK function, reached through instance `via`
\* (client.ts:75-82) or through the module's exports (via = 0); all of them
\* run on the one shared generated client.
Issue(r, via, hdr) ==
  /\ reqs[r].pc = "idle"
  /\ \A p \in DOMAIN reqs : p < r => reqs[p].pc # "idle"
  /\ via \in 0..Len(clients)
  /\ reqs' = [reqs EXCEPT ![r] =
        [IdleReq EXCEPT !.pc = "chain", !.gate = 1, !.via = via,
                        !.cur = globalClient, !.callerHdr = hdr, !.hdr = hdr]]
  /\ UNCHANGED <<now, envVars, sdkVars, errors, moduleVars, call>>

\* client.ts:49-67  the interceptor up to its await (or to its return, when
\* it does not wait)
EnterGate(r, maxTime) ==
  LET q == reqs[r]
      i == interceptors[q.gate]
      c == clients[i]
      auth == c.config.auth
      enc == toBase64(btoa, nodeBuffer, Credentials(auth))
      headers == Decorate(auth, q.hdr, enc.val)
      minInterval == c.config.throttle.minIntervalMs
      timeSinceLastRequest == now - c.lastRequestTime
  IN
  /\ q.pc = "chain"
  /\ q.gate <= Len(interceptors)
  /\ IF HasCredentials(auth) /\ ~enc.ok
     THEN \* toBase64 throws: the interceptor rejects, the request fails
          /\ reqs' = [reqs EXCEPT ![r].pc = "failed"]
          /\ UNCHANGED clients
     ELSE IF ~ThrottleOn(c.config.throttle)
     THEN /\ reqs' = [reqs EXCEPT ![r] =
                        Leave(q, i, headers, now, auth, 0, c.released)]
          /\ clients' = [clients EXCEPT ![i].released = @ + 1]
     ELSE IF MustWait(timeSinceLastRequest, minInterval)
     THEN /\ now + WaitTime(timeSinceLastRequest, minInterval) <= maxTime
          /\ reqs' = [reqs EXCEPT ![r].pc = "waiting",
                                  ![r].newHdr = headers,
                                  ![r].cred = auth,
                                  ![r].seen = c.released,
                                  ![r].delay = WaitTime(timeSinceLastRequest, minInterval),
                                  ![r].due = now + WaitTime(timeSinceLastRequest, minInterval)]
          /\ UNCHANGED clients
     ELSE /\ reqs' = [reqs EXCEPT ![r] =
                        Leave(q, i, headers, now, auth, 0, c.released)]
          /\ clients' = [clients EXCEPT ![i].released = @ + 1,
                                        ![i].lastRequestTime = Stamp(now, now)]
  /\ UNCHANGED <<now, envVars, clientConfig, interceptors, globalClient, lastCall,
                 errors, moduleVars, call>>

\* client.ts:62-67  the timer fires; timers fire in the order of their due times
WakeUp(r) ==
  LET q == reqs[r]
      i == interceptors[q.gate]
      auth == clients[i].config.auth
      recomputed ==
        Decorate(auth, q.hdr, toBase64(btoa, nodeBuffer, Credentials(auth)).val)
  IN
  /\ q.pc = "waiting"
  /\ now >= q.due
  /\ \A p \in DOMAIN reqs : reqs[p].pc = "waiting" => reqs[p].due >= q.due
  /\ reqs' = [reqs EXCEPT ![r] =
        [Leave(q, i, DispatchHeaders(q.newHdr, recomputed), q.due - q.delay,
               q.cred, q.delay, q.seen)
           EXCEPT !.newHdr = NoHeader, !.cred = NoAuth, !.due = 0, !.delay = 0,
                  !.seen = 0]]
  /\ clients' = [clients EXCEPT ![i].released = @ + 1,
                                ![i].lastRequestTime = Stamp(q.due - q.delay, now)]
  /\ UNCHANGED <<now, envVars, clientConfig, interceptors, globalClient, lastCall,
                 errors, moduleVars, call>>

\* After the last interceptor the generated client hands the request to fetch.
Fetch(r) ==
  /\ reqs[r].pc = "chain"
  /\ reqs[r].gate > Len(interceptors)
  /\ reqs' = [reqs EXCEPT ![r].pc = "sent"]
  /\ UNCHANGED <<now, envVars, sdkVars, errors, moduleVars, call>>

\* The caller aborts the request's signal while the request is in flight.
Cancel(r) ==
  /\ reqs[r].pc = "waiting"
  /\ ~reqs[r].aborted
  /\ reqs' = [reqs EXCEPT ![r].aborted = TRUE,
                          ![r].abortedIn = IF reqs[r].pc = "waiting"
                                           THEN reqs[r].gate ELSE 0]
  /\ UNCHANGED <<now, envVars, sdkVars, errors, moduleVars, call>>

\* The clock advances.
Tick(maxTime) ==
  /\ now < maxTime
  /\ now' = now + 1
  /\ UNCHANGED <<envVars, sdkVars, reqs, errors, moduleVars, call>>

\* ------------------------------------------------------- several clients
\* Clients are constructed and the module's client is reconfigured while
\* requests are in flight, on a host with btoa.
InitRequests(n) == reqs = [r \in 1..n |-> IdleReq]

Init ==
  /\ InitServer
  /\ btoa = TRUE
  /\ nodeBuffer = TRUE
  /\ InitRequests(MaxReqs)

\* the request pipeline of the shared generated client
Pipeline(n, maxTime) ==
  \/ \E r \in 1..n : EnterGate(r, maxTime)
  \/ \E r \in 1..n : WakeUp(r)
  \/ \E r \in 1..n : Fetch(r)
  \/ Tick(maxTime)

Next ==
  \/ /\ Len(clients) < MaxClients
     /\ \/ \E config \in Configs : NewClient(config)
        \/ \E config \in Configs : ConfigureClient(config)
  \/ /\ globalClient # 0 \/ Len(clients) < MaxClients
     /\ GetClient
  \/ \E r \in 1..MaxReqs, via \in 0..MaxClients : Issue(r, via, NoHeader)
  \/ Pipeline(MaxReqs, StartTime + MaxWait)

Spec == Init /\ [][Next]_vars

\* ------------------------------------------------------------ credentials
\* One client instance whose credentials are replaced while requests are in
\* flight, on a host with btoa.
InitAuth ==
  /\ InitServer
  /\ btoa = TRUE
  /\ nodeBuffer = TRUE
  /\ InitRequests(AuthReqs)

NextAuth ==
  \/ /\ clients = <<>>
     /\ \E config \in Configs : ConfigureClient(config)
  \/ \E auth \in Auths : SetAuth(1, auth)
  \/ \E r \in 1..AuthReqs, hdr \in {NoHeader, CallerHeader} : Issue(r, 0, hdr)
  \/ Pipeline(AuthReqs, StartTime + MaxWait)

SpecAuth == InitAuth /\ [][NextAuth]_vars

\* ------------------------------------------------------------ throttling
\* One client instance, with or without a throttle, on a host with btoa;
\* requests are issued through it concurrently or one after the other, and
\* callers may abort them while they wait.
ThrottleConfigs ==
  { ClientConfig(NoUrl, NoAuth, Throttle(2), FALSE),
    ClientConfig(NoUrl, NoAuth, NoThrottle, FALSE),
    ClientConfig(NoUrl, NoAuth, Throttle(0), FALSE),
    ClientConfig(NoUrl, NoAuth, Throttle(-1), FALSE) }

InitThrottle ==
  /\ InitServer
  /\ btoa = TRUE
  /\ nodeBuffer = TRUE
  /\ InitRequests(NumReqs)

OneClient(n, maxTime) ==
  \/ /\ clients = <<>>
     /\ \E config \in ThrottleConfigs : ConfigureClient(config)
  \/ \E r \in 1..n : Issue(r, 0, NoHeader)
  \/ \E r \in 1..n : Cancel(r)
  \/ Pipeline(n, maxTime)

NextThrottle == OneClient(NumReqs, StartTime + Horizon)

SpecThrottle == InitThrottle /\ [][NextThrottle]_vars

\* A burst: one more request through the one client.
InitBurst ==
  /\ InitServer
  /\ btoa = TRUE
  /\ nodeBuffer = TRUE
  /\ InitRequests(NumReqs + 1)

NextBurst == OneClient(NumReqs + 1, StartTime + Horizon)

SpecBurst == InitBurst /\ [][NextBurst]_vars

\* ------------------------------------------------------- browser globals
\* The host's globals come and go (as the tests define and delete them)
\* while clients are constructed.
DefineGlobal(g) ==
  /\ g \in {"window", "document"}
  /\ window' = IF g = "window" THEN TRUE ELSE window
  /\ document' = IF g = "document" THEN TRUE ELSE document
  /\ UNCHANGED <<now, btoa, nodeBuffer, sdkVars, reqs, errors, moduleVars,
                 call>>

DeleteGlobal(g) ==
  /\ g \in {"window", "document"}
  /\ window' = IF g = "window" THEN FALSE ELSE window
  /\ document' = IF g = "document" THEN FALSE ELSE document
  /\ UNCHANGED <<now, btoa, nodeBuffer, sdkVars, reqs, errors, moduleVars,
                 call>>

InitBrowser ==
  /\ InitServer
  /\ btoa = TRUE
  /\ nodeBuffer = TRUE
  /\ InitRequests(0)

\* In a browser the constructor throws, whatever the number of instances.
NextBrowser ==
  \/ \E g \in {"window", "document"} : DefineGlobal(g)
  \/ \E g \in {"window", "document"} : DeleteGlobal(g)
  \/ /\ Len(clients) < MaxClients \/ IsBrowser(window, document)
     /\ \/ \E config \in Configs : NewClient(config)
        \/ \E config \in Configs : ConfigureClient(config)
  \/ /\ globalClient # 0 \/ Len(clients) < MaxClients \/ IsBrowser(window, document)
     /\ GetClient

SpecBrowser == InitBrowser /\ [][NextBrowser]_vars

\* --------------------------------------------------------------- ZefixError
Redacted == "[REDACTED]"

HeaderNames == {"Authorization", "authorization", "Content-Type"}
HeaderValues == {"Basic secret123", "application/json"}

\* the plain objects that map some header names to values
HeaderRecords == UNION {[names -> HeaderValues] : names \in SUBSET HeaderNames}

NoHeaders == [h \in {} |-> ""]

\* The body handed to the constructor: undefined, a string, or an object;
\* an object may have a "headers" property, which is a plain object, null,
\* or a string.
Body(kind, hasHeaders, headersKind, headers) ==
  [kind |-> kind, hasHeaders |-> hasHeaders, headersKind |-> headersKind,
   headers |-> headers]

Bodies ==
  { Body("undefined", FALSE, "none", NoHeaders),
    Body("string", FALSE, "none", NoHeaders),
    Body("object", FALSE, "none", NoHeaders),
    Body("object", TRUE, "string", NoHeaders),
    Body("object", TRUE, "null", NoHeaders) }
  \cup { Body("object", TRUE, "object", h) : h \in HeaderRecords }

Statuses == {401, 500}
Codes == {"", "AUTH_ERROR"}          \* "" stands for undefined
Messages == {"", "Unauthorized"}     \* "" stands for undefined or empty

\* `HTTP ${status}`
HttpMessage(status) == IF status = 401 THEN "HTTP 401" ELSE "HTTP 500"

\* only the capitalised spelling redacted
RedactCapitalisedOnly(headers) ==
  [h \in DOMAIN headers |-> IF h = "Authorization" THEN Redacted ELSE headers[h]]

\* errors.ts: headers = {...headers}; the two `in` tests and assignments
RedactHeaders(headers) ==
  [h \in DOMAIN headers |->
     IF h = "Authorization" THEN Redacted
     ELSE IF h = "authorization" THEN Redacted
     ELSE headers[h]]

\* errors.ts: the body the constructor leaves on the error
RedactBody(body) ==
  IF body.kind = "object" /\ body.hasHeaders
  THEN IF body.headersKind \in {"object", "null"}      \* typeof === 'object'
       THEN [body EXCEPT !.headersKind = "object",     \* {...null} is {}
                         !.headers = RedactHeaders(body.headers)]
       ELSE body
  ELSE body

\* new ZefixError(status, code, message, body)
ZefixError(status, code, message, body) ==
  [name |-> "ZefixError",
   status |-> status,
   code |-> code,
   message |-> IF message # "" THEN message ELSE HttpMessage(status),
   body |-> RedactBody(body),
   given |-> body]

NewZefixError(status, code, message, body) ==
  /\ Len(errors) < MaxErrors
  /\ errors' = Append(errors, ZefixError(status, code, message, body))
  /\ UNCHANGED <<now, envVars, sdkVars, reqs, moduleVars, call>>

InitError ==
  /\ InitServer
  /\ btoa = TRUE
  /\ nodeBuffer = TRUE
  /\ InitRequests(0)

NextError ==
  \E status \in Statuses, code \in Codes, message \in Messages, body \in Bodies :
    NewZefixError(status, code, message, body)

SpecError == InitError /\ [][NextError]_vars

\* ----------------------------------------------------------------- ensureOk
\* res = { response: Response; data?: T }
Responses == [ok : BOOLEAN, status : {200, 404, 500}]

\* the values of res.data: undefined, null, the falsy primitives 0, false and
\* '', a non-empty string, and objects with or without a headers property
DataValues ==
  { Body(kind, FALSE, "none", NoHeaders) :
      kind \in {"undefined", "null", "zero", "false", "emptyString", "string",
                "object"} }
  \cup { Body("object", TRUE, "object", h) : h \in HeaderRecords }

\* !res.data
Falsy(data) == data.kind \in {"undefined", "null", "zero", "false", "emptyString"}

\* `Request failed with status ${res.response.status}`
RequestFailed(status) ==
  CASE status = 200 -> "Request failed with status 200"
    [] status = 404 -> "Request failed with status 404"
    [] OTHER -> "Request failed with status 500"

ensureOk(res) ==
  IF ~res.response.ok
  THEN [threw |-> TRUE,
        error |-> ZefixError(res.response.status, "",
                             RequestFailed(res.response.status), res.data)]
  ELSE IF Falsy(res.data)
  THEN [threw |-> TRUE,
        error |-> ZefixError(res.response.status, "NO_DATA",
                             "Response contained no data",
                             Body("undefined", FALSE, "none", NoHeaders))]
  ELSE [threw |-> FALSE, value |-> res.data]

EnsureOk(res) ==
  /\ call' = [fn |-> "ensureOk", res |-> res, outcome |-> ensureOk(res)]
  /\ UNCHANGED <<now, envVars, sdkVars, reqs, errors, moduleVars>>

InitEnsure ==
  /\ InitServer
  /\ btoa = TRUE
  /\ nodeBuffer = TRUE
  /\ InitRequests(0)

NextEnsure ==
  \E response \in Responses, data \in DataValues :
    EnsureOk([response |-> response, data |-> data])

SpecEnsure == InitEnsure /\ [][NextEnsure]_vars

\* ----------------------------------------------------------- toBase64 calls
\* the code units of the strings handed to toBase64: 'u', ':', U+00E4, U+20AC
CodeUnits == {117, Colon, 228, 8364}

RECURSIVE StringsOver(_, _)
StringsOver(units, n) ==
  IF n = 0 THEN {<<>>}
  ELSE LET shorter == StringsOver(units, n - 1)
       IN shorter \cup {Append(t, c) : t \in shorter, c \in units}

\* toBase64(s) on the host at hand
ToBase64(s) ==
  /\ call' = [fn |-> "toBase64", s |-> s, outcome |-> toBase64(btoa, nodeBuffer, s)]
  /\ UNCHANGED <<now, envVars, sdkVars, reqs, errors, moduleVars>>

\* a host with btoa (a worker, a recent Node), with the Node Buffer only, or
\* with neither
InitBase64 ==
  /\ now = StartTime
  /\ window = FALSE
  /\ document = FALSE
  /\ InitSdk
  /\ btoa \in BOOLEAN
  /\ nodeBuffer \in BOOLEAN
  /\ InitRequests(0)

NextBase64 == \E s \in StringsOver(CodeUnits, MaxStrLen) : ToBase64(s)

SpecBase64 == InitBase64 /\ [][NextBase64]_vars

\* ---------------------------------------------------------------- uid.ts
\* A string is a sequence of characters.  A JavaScript value handed to the
\* helpers is a string, undefined, null, or (past the type checker) a number.
JsString(s) == [kind |-> "string", val |-> s]
JsUndefined == [kind |-> "undefined", val |-> <<>>]
JsNull == [kind |-> "null", val |-> <<>>]
JsNumber(digits) == [kind |-> "number", val |-> digits]

AsciiDigits == {"0", "1", "2", "3", "4", "5", "6", "7", "8", "9"}
WhiteSpace == {" ", "\t"}

\* the /i flag: letters compared in lower case
Lower(c) ==
  CASE c = "C" -> "c" [] c = "H" -> "h" [] c = "E" -> "e" [] c = "M" -> "m"
    [] c = "W" -> "w" [] c = "S" -> "s" [] c = "T" -> "t" [] c = "V" -> "v"
    [] c = "A" -> "a" [] c = "I" -> "i" [] OTHER -> c

LowerCase(s) == [k \in 1..Len(s) |-> Lower(s[k])]

\* String.prototype.trim
RECURSIVE TrimStart(_)
TrimStart(s) ==
  IF s # <<>> /\ Head(s) \in WhiteSpace THEN TrimStart(Tail(s)) ELSE s

RECURSIVE TrimEnd(_)
TrimEnd(s) ==
  IF s # <<>> /\ s[Len(s)] \in WhiteSpace
  THEN TrimEnd(SubSeq(s, 1, Len(s) - 1)) ELSE s

Trim(s) == TrimEnd(TrimStart(s))

\* a greedy character class: the first position from k on whose character is
\* not in the class
RECURSIVE SkipRun(_, _, _)
SkipRun(s, k, class) ==
  IF k <= Len(s) /\ s[k] \in class THEN SkipRun(s, k + 1, class) ELSE k

\* (?:\d[\s.]*){n} from position k: the position after it, 0 when it fails
RECURSIVE DigitRuns(_, _, _)
DigitRuns(s, k, n) ==
  IF n = 0 THEN k
  ELSE IF k <= Len(s) /\ s[k] \in AsciiDigits
  THEN DigitRuns(s, SkipRun(s, k + 1, WhiteSpace \cup {"."}), n - 1)
  ELSE 0

\* uid.ts:20  UID_CORE_RE = /^\d{9}$/
UidCoreDigits == 9

\* a test for nine digits somewhere in the string
UID_CORE_RE_Unanchored(s) == Len(SelectSeq(s, LAMBDA c : c \in AsciiDigits)) >= UidCoreDigits

UID_CORE_RE(s) ==
  /\ Len(s) = UidCoreDigits
  /\ \A k \in 1..Len(s) : s[k] \in AsciiDigits

VatSuffixes == {<<"m", "w", "s", "t">>, <<"t", "v", "a">>, <<"i", "v", "a">>}

\* uid.ts:26  UID_INPUT_RE.exec(s): whether it matches, and capture group 1.
\* The classes that follow one another are disjoint, so the greedy match is
\* the only one; the last [\s.]* takes the white space before a suffix.
UID_INPUT_RE(s) ==
  LET start == SkipRun(s, 4, WhiteSpace \cup {".", "-"})
      end == DigitRuns(s, start, UidCoreDigits)
      rest == SubSeq(s, end, Len(s))
  IN IF /\ Len(s) >= 3
        /\ LowerCase(SubSeq(s, 1, 3)) = <<"c", "h", "e">>
        /\ end # 0
        /\ rest = <<>> \/ LowerCase(rest) \in VatSuffixes
     THEN [matched |-> TRUE, group |-> SubSeq(s, start, end - 1)]
     ELSE [matched |-> FALSE, group |-> <<>>]

\* replaceAll(/\D/g, '')
StripNonDigits(s) == SelectSeq(s, LAMBDA c : c \in AsciiDigits)

\* the result of a call: a thrown error, undefined, or a value
Thrown == [threw |-> TRUE, def |-> FALSE, val |-> <<>>]
ReturnedUndefined == [threw |-> FALSE, def |-> FALSE, val |-> <<>>]
Returned(v) == [threw |-> FALSE, def |-> TRUE, val |-> v]

\* a guard that lets null and undefined through
NotInputEmptyOnly(input) == input.kind = "string" /\ input.val = <<>>

\* uid.ts:41  !input
NotInput(input) ==
  \/ input.kind \in {"undefined", "null"}
  \/ input.kind = "string" /\ input.val = <<>>

\* digits taken from the CHE match alone, without the fallback to the input
DigitsSourceMatchOnly(match, trimmed) == IF match.matched THEN match.group ELSE <<>>

\* uid.ts:48  match ? match[1] : trimmed
DigitsSource(match, trimmed) == IF match.matched THEN match.group ELSE trimmed

\* uid.ts:40-52
normalizeUid(input) ==
  IF NotInput(input) THEN ReturnedUndefined
  ELSE IF input.kind # "string" THEN Thrown      \* input.trim is not a function
  ELSE LET trimmed == Trim(input.val)
           match == UID_INPUT_RE(trimmed)
           digits == StripNonDigits(DigitsSource(match, trimmed))
       IN IF UID_CORE_RE(digits) THEN Returned(digits) ELSE ReturnedUndefined

\* String.prototype.slice(a, b) for 0 <= a <= b
Slice(s, a, b) == SubSeq(s, a + 1, IF b < Len(s) THEN b ELSE Len(s))

\* the three groups rendered last to first
CanonicalReversed(core) ==
  <<"C", "H", "E", "-">> \o Slice(core, 6, Len(core)) \o <<".">>
    \o Slice(core, 3, 6) \o <<".">> \o Slice(core, 0, 3)

\* uid.ts:68  `CHE-${core.slice(0, 3)}.${core.slice(3, 6)}.${core.slice(6)}`
Canonical(core) ==
  <<"C", "H", "E", "-">> \o Slice(core, 0, 3) \o <<".">>
    \o Slice(core, 3, 6) \o <<".">> \o Slice(core, 6, Len(core))

\* the absent core returned in place of the input
FormatFallbackCore(input) == JsUndefined

\* uid.ts:67  if (!core) return input
FormatFallback(input) == input

\* uid.ts:65-69  the result is a thrown error or a JavaScript value
formatUid(input) ==
  LET core == normalizeUid(input)
  IN IF core.threw THEN [threw |-> TRUE, value |-> JsUndefined]
     ELSE IF ~core.def THEN [threw |-> FALSE, value |-> FormatFallback(input)]
     ELSE [threw |-> FALSE, value |-> JsString(Canonical(core.val))]

\* uid.ts:83-85
isValidUidFormat(input) ==
  LET core == normalizeUid(input)
  IN IF core.threw THEN [threw |-> TRUE, value |-> FALSE]
     ELSE [threw |-> FALSE, value |-> core.def]

\* a comparison of the two results alone
SameCoreOnly(normalizedA, normalizedB) == normalizedA = normalizedB

\* uid.ts:102  normalizedA !== undefined && normalizedA === normalizedB
SameCore(normalizedA, normalizedB) ==
  normalizedA.def /\ normalizedA = normalizedB

\* uid.ts:99-103
uidEquals(a, b) ==
  LET normalizedA == normalizeUid(a)
      normalizedB == normalizeUid(b)
  IN IF normalizedA.threw \/ normalizedB.threw THEN [threw |-> TRUE, value |-> FALSE]
     ELSE [threw |-> FALSE, value |-> SameCore(normalizedA, normalizedB)]

\* ------------------------------------------------------------ uid.ts calls
\* The inputs: the forms the tests list, generalised.
Pads == {<<>>, <<" ">>}
ChePrefixes == {<<"C", "H", "E">>, <<"c", "h", "e">>, <<"c", "H", "e">>}
PrefixSeparators == {<<>>, <<"-">>, <<" ">>, <<".">>}
DigitSeparators == {<<>>, <<".">>, <<" ">>, <<"-">>, <<" ", ".", "-">>}
VatSuffixTexts ==
  {<<>>, <<" ", "M", "W", "S", "T">>, <<" ", "t", "v", "a">>,
   <<"\t", "I", "v", "A">>}

\* nine digits, cut in three
CoreCuts ==
  { << <<"1", "2", "3">>, <<"4", "5", "6">>, <<"7", "8", "9">> >>,
    << <<"1">>, <<"0", "5", "8", "0">>, <<"5", "4", "6", "1">> >>,
    << <<"9", "8">>, <<"7">>, <<"6", "5", "4", "3", "2", "1">> >> }

\* [white space] [CHE, separators] digits with separators [suffix] [white
\* space], each with the nine digits it is written from
VatForms ==
  { [text |-> pad \o head \o cut[1] \o sep1 \o cut[2] \o sep2 \o cut[3]
                \o suffix \o pad,
     core |-> cut[1] \o cut[2] \o cut[3]] :
      pad \in Pads,
      head \in {<<>>} \cup {che \o sep : che \in ChePrefixes, sep \in PrefixSeparators},
      cut \in CoreCuts,
      sep1 \in DigitSeparators,
      sep2 \in {<<>>, <<".">>, <<"-">>},
      suffix \in VatSuffixTexts }

\* CHE-DDD.DDD.DDD
DigitGroups ==
  {<<"1", "2", "3">>, <<"4", "5", "6">>, <<"7", "8", "9">>, <<"0", "0", "0">>,
   <<"1", "0", "5">>}

CanonicalForm(a, b, c) ==
  <<"C", "H", "E", "-">> \o a \o <<".">> \o b \o <<".">> \o c

CanonicalForms == {CanonicalForm(a, b, c) : a, b, c \in DigitGroups}

\* too few or too many digits, letters, a broken prefix, an unknown suffix
MalformedForms ==
  { head \o body \o tail :
      head \in {<<>>, <<"C", "H", "E">>, <<"C", "H", "E", "-">>, <<"C", "H">>,
                <<"x", "C", "H", "E">>},
      body \in {<<>>,
                <<"1", "2", "3", "4", "5", "6", "7", "8">>,
                <<"1", "2", "3", "4", "5", "6", "7", "8", "9">>,
                <<"1", "2", "3", "4", "5", "6", "7", "8", "9", "0">>,
                <<"1", "2", "3", ".", "4", "5", "6", ".", "7", "8">>,
                <<"1", "2", "3", ".", "4", "5", "6", ".", "7", "8", "9", "0">>,
                <<"1", "2", "3", "4", ".", "4", "5", "6", ".", "7", "8">>,
                <<"A", "B", "C", ".", "D", "E", "F", ".", "G", "H", "I">>,
                <<"1", "2", "x", "3", "4", "5", "6", "7", "8", " ", "9">>,
                <<"i", "n", "v", "a", "l", "i", "d">>},
      tail \in {<<>>, <<"M", "W", "S", "T">>, <<" ", "V", "A", "T">>, <<".">>,
                <<"-">>, <<" ", "m", "w", "s", "t", " ", "1">>, <<" ", "x">>} }

UidInputs ==
  {JsString(text) :
     text \in {form.text : form \in VatForms} \cup CanonicalForms \cup MalformedForms}
  \cup {JsUndefined, JsNull,
        JsNumber(<<"1", "2", "3", "4", "5", "6", "7", "8", "9">>)}

\* the inputs compared with one another
UidPairInputs ==
  {JsString(CanonicalForm(a, a, c)) : a, c \in {<<"1", "2", "3">>, <<"7", "8", "9">>}}
  \cup {JsString(text) :
          text \in {<<"1", "2", "3", "1", "2", "3", "7", "8", "9">>,
                    <<"c", "h", "e", " ", "1", "2", "3", " ", "1", "2", "3", " ",
                      "7", "8", "9", " ", "i", "v", "a">>,
                    <<"C", "H", "E", "-", "1", "2", "3", "-", "1", "2", "3", "-",
                      "1", "2", "3">>,
                    <<"C", "H", "E", "-", "1", "2", "3", ".", "4", "5", "6", ".",
                      "7", "8">>,
                    <<"i", "n", "v", "a", "l", "i", "d">>,
                    <<>>}}
  \cup {JsUndefined, JsNull,
        JsNumber(<<"1", "2", "3", "4", "5", "6", "7", "8", "9">>)}

\* One helper is applied to one input in each behaviour.
NormalizeUid(input) ==
  /\ call = Uncalled
  /\ call' = [fn |-> "normalizeUid", input |-> input, outcome |-> normalizeUid(input)]
  /\ UNCHANGED <<now, envVars, sdkVars, reqs, errors, moduleVars>>

FormatUid(input) ==
  /\ call = Uncalled
  /\ call' = [fn |-> "formatUid", input |-> input, outcome |-> formatUid(input)]
  /\ UNCHANGED <<now, envVars, sdkVars, reqs, errors, moduleVars>>

IsValidUidFormat(input) ==
  /\ call = Uncalled
  /\ call' = [fn |-> "isValidUidFormat", input |-> input,
              outcome |-> isValidUidFormat(input)]
  /\ UNCHANGED <<now, envVars, sdkVars, reqs, errors, moduleVars>>

UidEquals(a, b) ==
  /\ call = Uncalled
  /\ call' = [fn |-> "uidEquals", a |-> a, b |-> b, outcome |-> uidEquals(a, b)]
  /\ UNCHANGED <<now, envVars, sdkVars, reqs, errors, moduleVars>>

InitUid ==
  /\ InitServer
  /\ btoa = TRUE
  /\ nodeBuffer = TRUE
  /\ InitRequests(0)

NextUid ==
  \/ \E input \in UidInputs : NormalizeUid(input)
  \/ \E input \in UidInputs : FormatUid(input)
  \/ \E input \in UidInputs : IsValidUidFormat(input)
  \/ \E a, b \in UidPairInputs : UidEquals(a, b)

SpecUid == InitUid /\ [][NextUid]_vars

\* ------------------------------------------- the earlier index.ts module
\* part_002:28-98: the configuration is kept in module variables, and every
\* interceptor registered by configureClient reads them when a request passes.
ModuleClosure == 0        \* the entry of `interceptors` for such an interceptor

\* part_002:37-90  configureClient(config), called by the user or by setAuth
configureClient(config, op) ==
  IF IsBrowser(window, document)
  THEN /\ lastCall' = [op |-> op, browser |-> window /\ document, threw |-> TRUE]
       /\ UNCHANGED <<clientConfig, interceptors, throttleConfig>>
       /\ currentAuth' = IF op = "setAuth" THEN config.auth ELSE currentAuth
  ELSE /\ currentAuth' = config.auth
       /\ throttleConfig' = config.throttle
       /\ clientConfig' = SetConfig(clientConfig, config)
       /\ interceptors' = Use(interceptors, ModuleClosure)
       /\ lastCall' = [op |-> op, browser |-> window /\ document, threw |-> FALSE]

ModuleConfigureClient(config) ==
  /\ configureClient(config, "configureClient")
  /\ UNCHANGED <<now, envVars, clients, globalClient, reqs, errors,
                 lastRequestTime, call>>

\* part_002:95-98  currentAuth = auth; configureClient({auth})
ModuleSetAuth(auth) ==
  /\ configureClient(ClientConfig(NoUrl, auth, NoThrottle, FALSE), "setAuth")
  /\ UNCHANGED <<now, envVars, clients, globalClient, reqs, errors,
                 lastRequestTime, call>>

\* part_002:88  request r leaves a module interceptor
ModuleLeave(q, headers, entered, auth, wait) ==
  [q EXCEPT !.pc = "chain",
            !.gate = q.gate + 1,
            !.hdr = headers,
            !.trail = Append(q.trail,
               [inst |-> ModuleClosure, at |-> now, entered |-> entered,
                seen |-> 0, rank |-> 0, inHdr |-> q.hdr, outHdr |-> headers,
                cred |-> auth, delay |-> wait,
                reqHdr |-> ReqHeaders(q.hdr, headers)])]

\* part_002:66-88  the interceptor up to its await (or to its return)
ModuleEnterGate(r, maxTime) ==
  LET q == reqs[r]
      enc == toBase64(btoa, nodeBuffer, Credentials(currentAuth))
      headers == Decorate(currentAuth, q.hdr, enc.val)
      minInterval == throttleConfig.minIntervalMs
      timeSinceLastRequest == now - lastRequestTime
  IN
  /\ q.pc = "chain"
  /\ q.gate <= Len(interceptors)
  /\ interceptors[q.gate] = ModuleClosure
  /\ IF HasCredentials(currentAuth) /\ ~enc.ok
     THEN /\ reqs' = [reqs EXCEPT ![r].pc = "failed"]
          /\ UNCHANGED lastRequestTime
     ELSE IF ~ThrottleOn(throttleConfig)
     THEN /\ reqs' = [reqs EXCEPT ![r] = ModuleLeave(q, headers, now, currentAuth, 0)]
          /\ UNCHANGED lastRequestTime
     ELSE IF MustWait(timeSinceLastRequest, minInterval)
     THEN /\ now + WaitTime(timeSinceLastRequest, minInterval) <= maxTime
          /\ reqs' = [reqs EXCEPT
                ![r].pc = "waiting",
                ![r].newHdr = headers,
                ![r].cred = currentAuth,
                ![r].delay = WaitTime(timeSinceLastRequest, minInterval),
                ![r].due = now + WaitTime(timeSinceLastRequest, minInterval)]
          /\ UNCHANGED lastRequestTime
     ELSE /\ reqs' = [reqs EXCEPT ![r] = ModuleLeave(q, headers, now, currentAuth, 0)]
          /\ lastRequestTime' = Stamp(now, now)
  /\ UNCHANGED <<now, envVars, sdkVars, errors, currentAuth, throttleConfig, call>>

\* part_002:82-88  the timer fires
ModuleWakeUp(r) ==
  LET q == reqs[r] IN
  /\ q.pc = "waiting"
  /\ now >= q.due
  /\ \A p \in DOMAIN reqs : reqs[p].pc = "waiting" => reqs[p].due >= q.due
  /\ reqs' = [reqs EXCEPT ![r] =
        [ModuleLeave(q,
                     DispatchHeaders(q.newHdr,
                        Decorate(currentAuth, q.hdr,
                                 toBase64(btoa, nodeBuffer,
                                          Credentials(currentAuth)).val)),
                     q.due - q.delay, q.cred, q.delay)
           EXCEPT !.newHdr = NoHeader, !.cred = NoAuth, !.due = 0, !.delay = 0]]
  /\ lastRequestTime' = Stamp(q.due - q.delay, now)
  /\ UNCHANGED <<now, envVars, sdkVars, errors, currentAuth, throttleConfig, call>>

InitModule ==
  /\ InitServer
  /\ btoa = TRUE
  /\ nodeBuffer = TRUE
  /\ InitRequests(ModuleReqs)

NextModule ==
  \/ /\ Len(interceptors) < ModuleUses
     /\ \E config \in Configs : ModuleConfigureClient(config)
  \/ /\ Len(interceptors) < ModuleUses
     /\ \E auth \in Auths : ModuleSetAuth(auth)
  \/ \E r \in 1..ModuleReqs : Issue(r, 0, NoHeader)
  \/ \E r \in 1..ModuleReqs : ModuleEnterGate(r, StartTime + MaxWait)
  \/ \E r \in 1..ModuleReqs : ModuleWakeUp(r)
  \/ \E r \in 1..ModuleReqs : Fetch(r)
  \/ Tick(StartTime + MaxWait)

SpecModule == InitModule /\ [][NextModule]_vars

\* ------------------------------------------------- constructions that stack
\* Instances made one after another on the one generated client, each with
\* credentials or a throttle of its own, and requests passing the gates that
\* have been registered (client.ts:40-68, index.ts:27-37).
StackConfigs ==
  { ClientConfig(NoUrl, AuthUP, Throttle(1), FALSE),
    ClientConfig(Url(CustomBaseUrl), AuthLatin1, NoThrottle, FALSE) }

InitStack ==
  /\ InitServer
  /\ btoa = TRUE
  /\ nodeBuffer = TRUE
  /\ InitRequests(StackReqs)

\* no request is on its way through the gates
Quiet == \A r \in DOMAIN reqs : reqs[r].pc \in {"idle", "sent", "failed"}

\* instances are constructed, and requests issued, one after another
NextStack ==
  \/ /\ Quiet
     /\ Len(clients) < StackClients
     /\ \/ \E config \in StackConfigs : NewClient(config)
        \/ \E config \in StackConfigs : ConfigureClient(config)
  \/ /\ Quiet
     /\ globalClient # 0 \/ Len(clients) < StackClients
     /\ GetClient
  \/ /\ Quiet
     /\ \E r \in 1..StackReqs : Issue(r, 0, CallerHeader)
  \/ Pipeline(StackReqs, StartTime + MaxWait)

SpecStack == InitStack /\ [][NextStack]_vars

\* ------------------------------------------------ requests that get through
\* One client, its credentials replaced at any moment, requests in flight
\* together, and an event loop that runs what is ready: a continuation that
\* can run does run, and the clock goes on to the due time of a pending
\* timer (client.ts:49-68, 71-73).

\* The clock advances towards the due time of a pending timer.
TimerTick ==
  /\ \E r \in DOMAIN reqs : reqs[r].pc = "waiting" /\ reqs[r].due > now
  /\ now' = now + 1
  /\ UNCHANGED <<envVars, sdkVars, reqs, errors, moduleVars, call>>

\* no wait is longer than MaxWait, and a request waits once
LiveTime == StartTime + LiveReqs * MaxWait

InitLive ==
  /\ InitServer
  /\ btoa = TRUE
  /\ nodeBuffer = TRUE
  /\ InitRequests(LiveReqs)

NextLive ==
  \/ /\ clients = <<>>
     /\ \E config \in Configs : ConfigureClient(config)
  \/ \E auth \in Auths : SetAuth(1, auth)
  \/ \E r \in 1..LiveReqs : Issue(r, 0, NoHeader)
  \/ \E r \in 1..LiveReqs : EnterGate(r, LiveTime)
  \/ \E r \in 1..LiveReqs : WakeUp(r)
  \/ \E r \in 1..LiveReqs : Fetch(r)
  \/ TimerTick

\* the event loop runs every continuation that is ready and fires every timer
\* that is due; the clock reaches the due time of a pending timer
FairLive ==
  /\ \A r \in 1..LiveReqs : WF_vars(EnterGate(r, LiveTime))
  /\ \A r \in 1..LiveReqs : WF_vars(WakeUp(r))
  /\ \A r \in 1..LiveReqs : WF_vars(Fetch(r))
  /\ WF_vars(TimerTick)

SpecLive == InitLive /\ [][NextLive]_vars /\ FairLive

\* ------------------------------------------------------------ properties
\* the passes of request r through gates: its trail entries
Passes(r) == {reqs[r].trail[k] : k \in 1..Len(reqs[r].trail)}

Throttled(i) == ThrottleOn(clients[i].config.throttle)
MinInterval(i) == clients[i].config.throttle.minIntervalMs

Abs(x) == IF x < 0 THEN -x ELSE x

\* C1: the readings at which any two requests leave the gate of one client
\* with minIntervalMs = M > 0 are at least M apart.
C1_DispatchesPairwiseSpaced ==
  \A r1, r2 \in DOMAIN reqs : \A e1 \in Passes(r1), e2 \in Passes(r2) :
    (r1 # r2 /\ e1.inst = e2.inst /\ Throttled(e1.inst))
      => Abs(e1.at - e2.at) >= MinInterval(e1.inst)

\* C2: read lastRequestTime, wait, write lastRequestTime is atomic: no call
\* enters a client's throttled gate while another call is between its read
\* and its write there.
C2_ReadWaitWriteAtomic ==
  \A r1, r2 \in DOMAIN reqs : r1 # r2 =>
    /\ ~(/\ reqs[r1].pc = "waiting" /\ reqs[r2].pc = "waiting"
         /\ reqs[r1].gate = reqs[r2].gate)
    /\ \A e1 \in Passes(r1), e2 \in Passes(r2) :
         (e1.inst = e2.inst /\ Throttled(e1.inst))
           => ~(e1.rank > e2.seen /\ e2.rank > e1.seen)

\* C3: with minIntervalMs = M > 0, a request that enters the gate after
\* another has left it leaves at a reading at least M later.
C3_SequentialSpacing ==
  \A r1, r2 \in DOMAIN reqs : \A e1 \in Passes(r1), e2 \in Passes(r2) :
    (e1.inst = e2.inst /\ Throttled(e1.inst) /\ e1.rank <= e2.seen)
      => e2.at >= e1.at + MinInterval(e1.inst)

\* two sequential requests, the second of which had to wait
C3_Witness ==
  \E r1, r2 \in DOMAIN reqs : \E e1 \in Passes(r1), e2 \in Passes(r2) :
    /\ e1.inst = e2.inst /\ Throttled(e1.inst) /\ e1.rank <= e2.seen
    /\ e2.delay > 0

\* C4: a request cancelled while suspended in the throttle wait does not
\* finish the gate (it writes no lastRequestTime) and is not handed to the
\* transport.
C4_CancelledWaitAborts ==
  \A r \in DOMAIN reqs :
    reqs[r].abortedIn # 0 =>
      /\ Len(reqs[r].trail) < reqs[r].abortedIn
      /\ reqs[r].pc # "sent"

\* C5: a request issued through one instance is never made to wait by the
\* gate of another instance.
C5_ThrottleIndependent ==
  \A r \in DOMAIN reqs :
    reqs[r].via # 0 =>
      /\ reqs[r].pc = "waiting" => interceptors[reqs[r].gate] = reqs[r].via
      /\ \A e \in Passes(r) : e.delay > 0 => e.inst = reqs[r].via

\* the auth configuration has both a non-empty username and a non-empty password
BothNonEmpty(auth) ==
  /\ auth.def
  /\ auth.username.def /\ Len(auth.username.val) > 0
  /\ auth.password.def /\ Len(auth.password.val) > 0

\* 'Basic ' + base64(username + ':' + password)
BasicOf(auth) ==
  [scheme |-> "Basic",
   value |-> toBase64(btoa, nodeBuffer,
                      auth.username.val \o <<58>> \o auth.password.val).val]

C7_HeaderUntouched ==
  \A r \in DOMAIN reqs : \A e \in Passes(r) :
    ~BothNonEmpty(e.cred) => e.outHdr = e.inHdr

\* a client holding only one of the two fields let a request through, with
\* and without a caller's header
C7_Witness ==
  /\ \E r \in DOMAIN reqs : \E e \in Passes(r) :
       /\ e.cred.def /\ ~BothNonEmpty(e.cred)
       /\ Truthy(e.cred.username) \/ Truthy(e.cred.password)
       /\ e.inHdr = CallerHeader /\ e.outHdr = CallerHeader

\* C8: a request issued after configureClient(c2), itself called after
\* earlier configureClient calls, is sent with the Authorization header that
\* c2 alone gives it and has waited in no gate but c2's.
C8_LastConfigurationAlone ==
  \A r \in DOMAIN reqs :
    LET q == reqs[r] IN
    ( /\ q.pc = "sent"
      /\ q.cur # 0 /\ q.cur = globalClient
      /\ \A i \in 1..Len(clients) : clients[i].origin = "configureClient" )
    => /\ q.hdr = IF BothNonEmpty(clients[q.cur].config.auth)
                  THEN BasicOf(clients[q.cur].config.auth)
                  ELSE q.callerHdr
       /\ \A e \in Passes(r) : e.delay > 0 => e.inst = q.cur

\* C9: a constructor call made while window and document are both defined
\* throws and changes nothing: the shared client's configuration, the
\* registered interceptors and the module's globalClient stay as they were.
C9_BrowserGuardConfiguresNothing ==
  [][(window /\ document) =>
       /\ lastCall' # lastCall => lastCall'.threw
       /\ clientConfig' = clientConfig
       /\ interceptors' = interceptors
       /\ globalClient' = globalClient
       /\ clients' = clients]_vars

\* configureClient has thrown in a browser after an earlier configuration
C9_Witness ==
  /\ window /\ document
  /\ lastCall.op = "configureClient" /\ lastCall.threw
  /\ globalClient # 0
  /\ interceptors # <<>>

Present(data) == data.kind \notin {"undefined", "null"}

\* C11: ensureOk(res) returns res.data exactly when res.response.ok is true
\* and res.data is present; in every other case it throws a ZefixError whose
\* status is res.response.status, with code 'NO_DATA' when the response is ok.
C11_EnsureOkReturnsPresentData ==
  call.fn = "ensureOk" =>
    LET res == call.res
        out == call.outcome
    IN /\ ~out.threw <=> (res.response.ok /\ Present(res.data))
       /\ ~out.threw => out.value = res.data
       /\ out.threw =>
            /\ out.error.name = "ZefixError"
            /\ out.error.status = res.response.status
            /\ res.response.ok => out.error.code = "NO_DATA"

\* C12: on a host with btoa or with the Node Buffer, toBase64(s) is the
\* standard base64 encoding of the UTF-8 bytes of s, for every string s.
C12_Utf8Base64OnEitherPath ==
  (call.fn = "toBase64" /\ (btoa \/ nodeBuffer)) =>
    /\ call.outcome.ok
    /\ call.outcome.val = Base64(Utf8Bytes(call.s))

\* C13: toBase64 throws exactly when the host has neither btoa nor the Node
\* Buffer; with either it returns a string for every input string.
C13_ThrowsOnlyWithoutPrimitive ==
  call.fn = "toBase64" => (~call.outcome.ok <=> (~btoa /\ ~nodeBuffer))

\* the ASCII digits of a string, in their order
DigitsOf(text) == SelectSeq(text, LAMBDA c : c \in {"0", "1", "2", "3", "4", "5", "6", "7", "8", "9"})

\* the call was given strings, undefined or null
StringOrAbsent(input) == input.kind \in {"string", "undefined", "null"}

\* C14: normalizeUid(s) returns a value exactly when s has nine ASCII digits
\* in all, whatever else it contains, and the value is those nine digits in
\* their order; whether the CHE pattern matched makes no difference.
C14_NineDigitsWhateverElse ==
  (call.fn = "normalizeUid" /\ call.input.kind = "string") =>
    LET digits == DigitsOf(call.input.val)
    IN call.outcome =
         IF Len(digits) = 9
         THEN [threw |-> FALSE, def |-> TRUE, val |-> digits]
         ELSE [threw |-> FALSE, def |-> FALSE, val |-> <<>>]

\* an input the CHE pattern does not match (a letter among the digits)
\* normalized to its nine digits
C14_Witness ==
  /\ call.fn = "normalizeUid"
  /\ call.input.kind = "string"
  /\ \E k \in 1..Len(call.input.val) : call.input.val[k] = "x"
  /\ ~UID_INPUT_RE(Trim(call.input.val)).matched
  /\ call.outcome.def
  /\ Len(call.outcome.val) = 9

\* C15: an input made of optional white space, an optional CHE prefix in any
\* case, the nine digits of d separated by runs of spaces, periods and
\* hyphens, and an optional suffix MWST, TVA or IVA in any case, normalizes
\* to d.
C15_VatFormsNormalize ==
  \A form \in VatForms :
    (call.fn = "normalizeUid" /\ call.input = [kind |-> "string", val |-> form.text])
      => call.outcome = [threw |-> FALSE, def |-> TRUE, val |-> form.core]

\* a form with a mixed-case prefix, hyphens between the digits and a suffix
\* normalized to its digits
C15_Witness ==
  /\ call.fn = "normalizeUid"
  /\ \E form \in VatForms :
       /\ call.input = [kind |-> "string", val |-> form.text]
       /\ call.outcome.val = form.core
  /\ \E k \in 2..(Len(call.input.val) - 1) :
       /\ call.input.val[k] = "-"
       /\ call.input.val[k - 1] \in AsciiDigits
       /\ call.input.val[k + 1] \in AsciiDigits
  /\ \E k \in 1..Len(call.input.val) : call.input.val[k] = "H"
  /\ \E k \in 1..Len(call.input.val) : call.input.val[k] = "v"
  /\ call.outcome.def

\* the string has the form CHE-DDD.DDD.DDD
IsCanonicalForm(text) ==
  /\ Len(text) = 15
  /\ SubSeq(text, 1, 4) = <<"C", "H", "E", "-">>
  /\ text[8] = "." /\ text[12] = "."
  /\ \A k \in {5, 6, 7, 9, 10, 11, 13, 14, 15} :
       text[k] \in {"0", "1", "2", "3", "4", "5", "6", "7", "8", "9"}

\* C16: for s of the form CHE-DDD.DDD.DDD, normalizeUid(s) is the nine digits
\* of s and formatUid of that result is s again.
C16_CanonicalRoundTrip ==
  (call.fn = "normalizeUid" /\ call.input.kind = "string"
     /\ IsCanonicalForm(call.input.val)) =>
    LET s == call.input.val
    IN /\ call.outcome =
            [threw |-> FALSE, def |-> TRUE,
             val |-> SubSeq(s, 5, 7) \o SubSeq(s, 9, 11) \o SubSeq(s, 13, 15)]
       /\ formatUid([kind |-> "string", val |-> call.outcome.val])
            = [threw |-> FALSE, value |-> call.input]

\* a canonical form with leading zeros and three different groups was
\* normalized
C16_Witness ==
  /\ call.fn = "normalizeUid"
  /\ call.input.kind = "string"
  /\ IsCanonicalForm(call.input.val)
  /\ call.outcome.def
  /\ call.outcome.val[1] = "0"
  /\ SubSeq(call.outcome.val, 1, 3) # SubSeq(call.outcome.val, 7, 9)

\* C17: formatUid(formatUid(x)) = formatUid(x) for every x; an input that
\* does not normalize is returned as it is.
C17_FormatIdempotent ==
  (call.fn = "formatUid" /\ StringOrAbsent(call.input)) =>
    /\ ~call.outcome.threw
    /\ formatUid(call.outcome.value) = call.outcome
    /\ (call.input.kind # "string" \/ Len(DigitsOf(call.input.val)) # 9)
         => call.outcome.value = call.input

\* formatUid rewrote a valid input that was not in canonical form
C17_Witness ==
  /\ call.fn = "formatUid"
  /\ call.input.kind = "string"
  /\ ~IsCanonicalForm(call.input.val)
  /\ call.outcome.value # call.input
  /\ IsCanonicalForm(call.outcome.value.val)

\* x is a string that normalizes: it has nine digits
IsValidRef(x) == x.kind = "string" /\ Len(DigitsOf(x.val)) = 9

\* C18: uidEquals(a, b) is true exactly when a and b both normalize and to
\* the same core; it is false when either is invalid, also when a and b are
\* the same text; uidEquals(b, a) gives the same.
C18_EqualsBothValidSameCore ==
  (call.fn = "uidEquals" /\ StringOrAbsent(call.a) /\ StringOrAbsent(call.b)) =>
    /\ ~call.outcome.threw
    /\ call.outcome.value <=>
         /\ IsValidRef(call.a) /\ IsValidRef(call.b)
         /\ DigitsOf(call.a.val) = DigitsOf(call.b.val)
    /\ uidEquals(call.b, call.a) = call.outcome

\* an invalid input compared with itself was found not equal
C18_Witness ==
  /\ call.fn = "uidEquals"
  /\ call.a = call.b
  /\ call.a.kind = "string" /\ call.a.val # <<>>
  /\ ~IsValidRef(call.a)
  /\ ~call.outcome.value

\* C19: for a string, null or undefined, none of normalizeUid, formatUid,
\* isValidUidFormat and uidEquals throws; an input that does not parse yields
\* undefined, the input itself, false and false.
C19_UidHelpersNeverThrow ==
  /\ (call.fn \in {"normalizeUid", "formatUid", "isValidUidFormat"}
        /\ StringOrAbsent(call.input)) =>
       /\ ~call.outcome.threw
       /\ ~IsValidRef(call.input) =>
            CASE call.fn = "normalizeUid" -> ~call.outcome.def
              [] call.fn = "formatUid" -> call.outcome.value = call.input
              [] OTHER -> call.outcome.value = FALSE
  /\ (call.fn = "uidEquals" /\ StringOrAbsent(call.a) /\ StringOrAbsent(call.b)) =>
       /\ ~call.outcome.threw
       /\ (~IsValidRef(call.a) \/ ~IsValidRef(call.b)) => call.outcome.value = FALSE

\* formatUid was given null and gave it back
C19_Witness ==
  /\ call.fn = "formatUid"
  /\ call.input.kind = "null"
  /\ ~call.outcome.threw
  /\ call.outcome.value.kind = "null"

\* C20: the module-level setAuth(auth) changes the credentials alone: the
\* throttle interval and the base URL configured before it are those in
\* effect after it.
C20_SetAuthKeepsThrottleAndBaseUrl ==
  [][(lastCall' # lastCall /\ lastCall'.op = "setAuth" /\ ~lastCall'.threw) =>
       /\ ThrottleOn(throttleConfig') = ThrottleOn(throttleConfig)
       /\ ThrottleOn(throttleConfig) =>
            throttleConfig'.minIntervalMs = throttleConfig.minIntervalMs
       /\ clientConfig'.baseUrl = clientConfig.baseUrl]_vars

\* a gate has dispatched once it holds a last timestamp (client.ts:28 starts
\* lastRequestTime at 0)
Dispatched(c) == c.lastRequestTime # 0

\* C21 as stated: the gate of every instance holds a last timestamp from the
\* first request it has decorated on, whatever the throttle configuration, and
\* never goes back to holding none.
C21_DispatchedOnFirstRequest ==
  [][\A i \in 1..Len(clients') :
       /\ clients'[i].released > 0 => Dispatched(clients'[i])
       /\ (i <= Len(clients) /\ Dispatched(clients[i]))
             => Dispatched(clients'[i])]_vars

\* C21: the gate of an instance whose throttle is in effect (minIntervalMs >
\* 0) holds a last timestamp from the first request it has decorated on and
\* never goes back to holding none; the gate of an instance without a
\* throttle in effect stays at 'never dispatched' however many requests it
\* decorates.
C21_DispatchedOnFirstThrottledRequest ==
  [][\A i \in 1..Len(clients') :
       /\ Throttled(i)' =>
            (clients'[i].released > 0 <=> Dispatched(clients'[i]))
       /\ ~Throttled(i)' => ~Dispatched(clients'[i])
       /\ (i <= Len(clients) /\ Dispatched(clients[i]))
             => Dispatched(clients'[i])]_vars

\* a throttled gate that has decorated two requests holds a timestamp
C21_Witness ==
  \E i \in 1..Len(clients) :
    Throttled(i) /\ clients[i].released = 2 /\ Dispatched(clients[i])

\* the readings at which requests have left the gate of instance i
ReleaseTimes(i) ==
  {e.at : e \in {e \in UNION {Passes(r) : r \in DOMAIN reqs} : e.inst = i}}

\* C22: on an instance whose throttle is in effect, lastRequestTime is the
\* clock reading at which the most recently released request left the gate
\* (taken after its wait), and a request still in its wait has written nothing.
C22_StampIsLastRelease ==
  \A i \in 1..Len(clients) :
    Throttled(i) =>
      IF ReleaseTimes(i) = {}
      THEN clients[i].lastRequestTime = 0
      ELSE /\ clients[i].lastRequestTime \in ReleaseTimes(i)
           /\ \A t \in ReleaseTimes(i) : t <= clients[i].lastRequestTime

\* the last request released had to wait, and the timestamp is the reading
\* after its wait
C22_Witness ==
  \E r \in DOMAIN reqs : \E e \in Passes(r) :
    /\ Throttled(e.inst)
    /\ e.delay > 0 /\ e.at > e.entered
    /\ clients[e.inst].lastRequestTime = e.at
    /\ e.rank = clients[e.inst].released

\* request r makes its first step inside a gate: it is suspended there or
\* leaves it at once
EntersGate(r) ==
  /\ reqs[r].pc = "chain"
  /\ reqs[r].gate <= Len(interceptors)
  /\ \/ reqs'[r].pc = "waiting"
     \/ reqs'[r].pc = "chain" /\ reqs'[r].gate = reqs[r].gate + 1

\* C23: a request is suspended in a gate exactly when the instance's
\* minIntervalMs is set and greater than zero and elapsed = now -
\* lastRequestTime is less than minIntervalMs, and then for minIntervalMs -
\* elapsed; with elapsed >= minIntervalMs, or minIntervalMs unset, zero or
\* negative, it leaves the gate in the same step, unsuspended.
C23_SuspendsExactlyWhenTooSoon ==
  [][\A r \in DOMAIN reqs :
       EntersGate(r) =>
         LET i == interceptors[reqs[r].gate]
             elapsed == now - clients[i].lastRequestTime
             tooSoon == /\ clients[i].config.throttle.def
                        /\ MinInterval(i) > 0
                        /\ elapsed < MinInterval(i)
         IN IF tooSoon
            THEN /\ reqs'[r].pc = "waiting"
                 /\ reqs'[r].delay = MinInterval(i) - elapsed
                 /\ reqs'[r].due = now + reqs'[r].delay
            ELSE /\ reqs'[r].pc = "chain"
                 /\ reqs'[r].trail[Len(reqs'[r].trail)].delay = 0
                 /\ reqs'[r].trail[Len(reqs'[r].trail)].at = now]_vars

\* a request that entered the gate part of the interval after the last
\* release was suspended for the rest of it
C23_Witness ==
  \E r \in DOMAIN reqs : \E e \in Passes(r) :
    /\ Throttled(e.inst)
    /\ e.delay > 0 /\ e.delay < MinInterval(e.inst)
    /\ e.at = e.entered + e.delay

HandedAuths == {c.auth : c \in Configs} \cup Auths

\* C25: whatever setAuth calls are interleaved with the requests of a client,
\* the credentials a request read in the gate are one of the auth
\* configurations handed to the client, and a Basic header it leaves with is
\* 'Basic ' + base64(username:password) of one such configuration.
C25_CredentialsOfOneConfiguration ==
  \A r \in DOMAIN reqs : \A e \in Passes(r) :
    /\ e.cred \in HandedAuths
    /\ e.outHdr.scheme = "Basic" =>
         \E a \in HandedAuths : BothNonEmpty(a) /\ e.outHdr = BasicOf(a)

\* two requests of one client left with the Basic headers of two
\* configurations that differ in username and in password
C25_Witness ==
  \E r1, r2 \in DOMAIN reqs : \E e1 \in Passes(r1), e2 \in Passes(r2) :
    /\ e1.outHdr = BasicOf(AuthUP)
    /\ e2.outHdr = BasicOf(AuthLatin1)
    /\ e1.inst = e2.inst
    /\ e2.delay > 0

\* the Authorization header a gate gives a request that comes with header hdr
\* when the credentials it reads are auth
HeaderUnder(auth, hdr) == IF BothNonEmpty(auth) THEN BasicOf(auth) ELSE hdr

\* C26: a step that changes the credentials of an instance changes nothing
\* else (base URL, throttle, lastRequestTime, the registered interceptors, the
\* requests in flight), and a request that enters a gate afterwards is given
\* the header of the credentials then in place: none added when auth is
\* undefined.
C26_SetAuthChangesCredentialsOnly ==
  [][/\ \A i \in 1..Len(clients) :
          (Len(clients') = Len(clients)
             /\ clients'[i].config.auth # clients[i].config.auth)
            => /\ clients' = [clients EXCEPT
                                ![i].config.auth = clients'[i].config.auth]
               /\ UNCHANGED <<clientConfig, interceptors, globalClient, reqs>>
     /\ \A r \in DOMAIN reqs :
          EntersGate(r) =>
            LET i == interceptors[reqs[r].gate]
                expected == HeaderUnder(clients[i].config.auth, reqs[r].hdr)
            IN IF reqs'[r].pc = "waiting"
               THEN reqs'[r].newHdr = expected
               ELSE reqs'[r].hdr = expected]_vars

\* after setAuth(undefined) on a throttled client constructed with
\* credentials, a request went through with no header added, still throttled
C26_Witness ==
  \E r1, r2 \in DOMAIN reqs : \E e1 \in Passes(r1), e2 \in Passes(r2) :
    /\ e1.inst = e2.inst
    /\ e1.cred = AuthUP /\ e1.outHdr.scheme = "Basic"
    /\ e2.cred = NoAuth /\ e2.outHdr = NoHeader
    /\ e1.rank < e2.rank
    /\ e2.delay > 0
    /\ Throttled(e2.inst)
    /\ clients[e2.inst].config.auth = NoAuth

C28_HeaderFromCredentialsOnEntry ==
  [][\A r \in DOMAIN reqs :
       (reqs[r].pc = "waiting" /\ reqs'[r].pc # "waiting") =>
         LET e == reqs'[r].trail[Len(reqs'[r].trail)] IN
         /\ e.cred = reqs[r].cred
         /\ e.outHdr = HeaderUnder(reqs[r].cred, reqs[r].hdr)
         /\ reqs'[r].hdr = e.outHdr]_vars

\* a request whose timer is due is suspended with credentials read on entry
\* that setAuth has since replaced by credentials giving another header
C28_Witness ==
  \E r \in DOMAIN reqs :
    LET i == interceptors[reqs[r].gate] IN
    /\ reqs[r].pc = "waiting"
    /\ now >= reqs[r].due
    /\ BothNonEmpty(reqs[r].cred)
    /\ clients[i].config.auth # reqs[r].cred
    /\ HeaderUnder(clients[i].config.auth, reqs[r].hdr)
         # HeaderUnder(reqs[r].cred, reqs[r].hdr)

\* the instances constructed by the module function op, in order of
\* construction
MadeBy(op) == {i \in 1..Len(clients) : clients[i].origin = op}

Latest(S) == CHOOSE i \in S : \A j \in S : j <= i

\* C29: the module's current instance, which getClient returns, is the one
\* made by the latest configureClient call that did not throw, or else the
\* default instance made by the first getClient call that did not throw, or
\* none before either; at most one default instance is ever made, and a call
\* that has just returned from getClient has one to return.
C29_CurrentInstance ==
  /\ Cardinality(MadeBy("getClient")) <= 1
  /\ globalClient =
       IF MadeBy("configureClient") # {} THEN Latest(MadeBy("configureClient"))
       ELSE IF MadeBy("getClient") # {} THEN Latest(MadeBy("getClient"))
       ELSE 0
  /\ (lastCall.op = "getClient" /\ ~lastCall.threw) => globalClient # 0
  /\ (lastCall.op = "configureClient" /\ ~lastCall.threw) =>
       /\ globalClient # 0
       /\ clients[globalClient].origin = "configureClient"

\* with the default instance made by getClient current, and an instance
\* constructed directly since, configureClient threw in a browser: the default
\* instance is still the current one
C29_Witness ==
  /\ lastCall.op = "configureClient" /\ lastCall.threw
  /\ globalClient # 0
  /\ clients[globalClient].origin = "getClient"
  /\ \E i \in 1..Len(clients) : i > globalClient /\ clients[i].origin = "new"

\* C30: every request that has entered the chain of gates is eventually
\* handed to the transport, whatever requests wait beside it and whatever
\* setAuth calls are made meanwhile.
C30_EveryRequestHandedOn ==
  \A r \in 1..LiveReqs :
    (reqs[r].pc \in {"chain", "waiting"}) ~> (reqs[r].pc = "sent")

====
